---- MODULE Spec2Model ----
(***************************************************************************)
(* A model of src/parsing/metadata.rs: loading and merging of              *)
(* .tmPreferences metadata (LoadMetadata -> Metadata), the scope query     *)
(* (Metadata::metadata_for_scope, ScopedMetadata accessors) and the lazily *)
(* compiled Pattern.                                                       *)
(*                                                                         *)
(* Representation.                                                         *)
(*   Option<T>      None is <<>>, Some(v) is <<v>>.                        *)
(*   serde_json     a value is a pair <<kind, payload>> with kind one of   *)
(*                  "string", "bool", "number", "array", "object".         *)
(*   Dict           a function from key strings to serde_json values.      *)
(*   PathBuf        a natural number: the rank of the path under           *)
(*                  PathBuf::cmp (equal numbers: paths that compare Equal).*)
(*   SelectorString a natural number: the rank of the text under str::cmp. *)
(*   Result         a record with tag "Ok", "Err" or "Panic".              *)
(***************************************************************************)
EXTENDS Integers, Sequences, FiniteSets, TLC

VARIABLES
    loaded,      \* LoadMetadata.loaded: the accumulated RawMetadataEntry values
    metadata,    \* Metadata.scoped_metadata
    src,         \* history: the accumulator the operation just performed consumed
    prev,        \* history: the Metadata before the operation just performed
    op,          \* the operation just performed
    added,       \* number of add_raw calls so far
    panicked,    \* TRUE once a call has panicked (the thread unwinds)
    tuple,       \* the argument of the last direct MetadataSet::from_raw call
    built,       \* the Result of the last direct MetadataSet::from_raw call
    scores,      \* the scope stack of the last query, as selector -> Option<MatchPower>
    scoped,      \* ScopedMetadata.items of the last query
    call,        \* the last accessor call: <<name, line>>
    ret,         \* the value the last accessor call returned
    pattern,     \* a Pattern shared by the threads: regex_str and the AtomicLazyCell
    pc,          \* per thread: the position inside Pattern::is_match
    arg,         \* per thread: the string is_match was called with
    tmp,         \* per thread: the Regex compiled locally, not yet stored
    out,         \* per thread: what is_match returned
    orig,        \* a Pattern owned by one thread
    copy,        \* Option: the Pattern last cloned or deserialized from orig
    wire,        \* Option: the last serialized form
    set,         \* Option: a MetadataSet read from a dump
    back         \* the Result of deserializing the serialized form of set

vars == <<loaded, metadata, src, prev, op, added, panicked, tuple, built,
          scores, scoped, call, ret, pattern, pc, arg, tmp, out,
          orig, copy, wire, set, back>>

mergeVars   == <<loaded, metadata, src, prev, op, added, panicked>>
rawVars     == <<tuple, built>>
queryVars   == <<scores, scoped, call, ret>>
patternVars == <<pattern, pc, arg, tmp, out>>
serdeVars   == <<orig, copy, wire, set, back>>

----------------------------------------------------------------------------
(* Option and serde_json values *)

None == <<>>
Some(v) == <<v>>
IsSome(o) == o # <<>>
Unwrap(o) == o[1]

JStr(s)  == <<"string", s>>
JBool(b) == <<"bool", b>>
JNum(n)  == <<"number", n>>
JArr(q)  == <<"array", q>>
JObj(d)  == <<"object", d>>
JNull    == <<"null", <<>>>>

Kind(j)    == j[1]
Payload(j) == j[2]

EmptyDict == <<>>
DictRemove(d, k) == [x \in (DOMAIN d) \ {k} |-> d[x]]
DictInsert(d, k, v) == [x \in (DOMAIN d) \cup {k} |-> IF x = k THEN v ELSE d[x]]

----------------------------------------------------------------------------
(* Constants of the source *)

KEYS_WE_USE ==
    << "increaseIndentPattern", "decreaseIndentPattern",
       "bracketIndentNextLinePattern", "disableIndentNextLinePattern",
       "unIndentedLinePattern", "indentParens", "shellVariables" >>

COMMENT_KEYS ==
    << <<"TM_COMMENT_START",   "TM_COMMENT_END">>,
       <<"TM_COMMENT_START_2", "TM_COMMENT_END_2">>,
       <<"TM_COMMENT_START_3", "TM_COMMENT_END_3">> >>

\* The names serde gives the Pattern fields of MetadataItems
\* (#[serde(rename_all = "camelCase")] applied to the Rust field names).
PatternFields ==
    << <<"increase_indent_pattern",          "increaseIndentPattern">>,
       <<"decrease_indent_pattern",          "decreaseIndentPattern">>,
       <<"bracket_indent_next_line_pattern", "bracketIndentNextLinePattern">>,
       <<"disable_indent_next_line_pattern", "disableIndentNextLinePattern">>,
       <<"unindented_line_pattern",          "unindentedLinePattern">> >>

InKeysWeUse(key) == \E i \in 1..Len(KEYS_WE_USE) : KEYS_WE_USE[i] = key

----------------------------------------------------------------------------
(* Pattern *)

\* A Pattern as built by deserialization or by clone: the cell is empty.
NewPattern(regex_str) == [regex_str |-> regex_str, regex |-> None]

----------------------------------------------------------------------------
(* MetadataSet::from_raw *)

\* ScopeSelectors::from_str succeeds.  Rank 0 stands for a selector text the
\* parser rejects (a scope of more than eight atoms).
SelectorParses(selector_string) == selector_string # 0

RECURSIVE FindLineCommentPair(_, _)
FindLineCommentPair(vars_, i) ==
    IF i > Len(COMMENT_KEYS) THEN None
    ELSE IF COMMENT_KEYS[i][1] \in DOMAIN vars_ /\ COMMENT_KEYS[i][2] \notin DOMAIN vars_
         THEN Some(COMMENT_KEYS[i])
         ELSE FindLineCommentPair(vars_, i + 1)

\* A variant that takes the first start key present, open or closed.
get_line_comment_marker_any_start(vars_) ==
    LET present == {i \in 1..Len(COMMENT_KEYS) : COMMENT_KEYS[i][1] \in DOMAIN vars_}
    IN  IF present = {} THEN [tag |-> "Ok", val |-> None]
        ELSE LET v == vars_[COMMENT_KEYS[CHOOSE i \in present : \A j \in present : i <= j][1]]
             IN  IF Kind(v) = "string"
                 THEN [tag |-> "Ok", val |-> Some(Payload(v))]
                 ELSE [tag |-> "Panic", val |-> None]

\* Option<String>, or a panic of as_str().unwrap() on a value that is no string.
get_line_comment_marker(vars_) ==
    LET found == FindLineCommentPair(vars_, 1)
    IN  IF ~IsSome(found) THEN [tag |-> "Ok", val |-> None]
        ELSE LET v == vars_[Unwrap(found)[1]]
             IN  IF Kind(v) = "string"
                 THEN [tag |-> "Ok", val |-> Some(Payload(v))]
                 ELSE [tag |-> "Panic", val |-> None]

RECURSIVE FindBlockCommentPair(_, _)
FindBlockCommentPair(vars_, i) ==
    IF i > Len(COMMENT_KEYS) THEN None
    ELSE IF COMMENT_KEYS[i][1] \in DOMAIN vars_ /\ COMMENT_KEYS[i][2] \in DOMAIN vars_
         THEN Some(COMMENT_KEYS[i])
         ELSE FindBlockCommentPair(vars_, i + 1)

\* A variant that looks for the end key in the first slot with a start key only.
get_block_comment_markers_first_start(vars_) ==
    LET present == {i \in 1..Len(COMMENT_KEYS) : COMMENT_KEYS[i][1] \in DOMAIN vars_}
        first == CHOOSE i \in present : \A j \in present : i <= j
    IN  IF present = {} \/ COMMENT_KEYS[first][2] \notin DOMAIN vars_
        THEN [tag |-> "Ok", val |-> None]
        ELSE LET b == vars_[COMMENT_KEYS[first][1]]
                 e == vars_[COMMENT_KEYS[first][2]]
             IN  IF Kind(b) = "string" /\ Kind(e) = "string"
                 THEN [tag |-> "Ok", val |-> Some(<<Payload(b), Payload(e)>>)]
                 ELSE [tag |-> "Panic", val |-> None]

get_block_comment_markers(vars_) ==
    LET found == FindBlockCommentPair(vars_, 1)
    IN  IF ~IsSome(found) THEN [tag |-> "Ok", val |-> None]
        ELSE LET b == vars_[Unwrap(found)[1]]
                 e == vars_[Unwrap(found)[2]]
             IN  IF Kind(b) = "string" /\ Kind(e) = "string"
                 THEN [tag |-> "Ok", val |-> Some(<<Payload(b), Payload(e)>>)]
                 ELSE [tag |-> "Panic", val |-> None]

\* serde's typed extraction of one Option<Pattern> field: a missing key and
\* null are None.
PatternFieldOk(settings, key) ==
    key \in DOMAIN settings => Kind(settings[key]) \in {"string", "null"}

PatternFieldValue(settings, key) ==
    IF key \in DOMAIN settings /\ Kind(settings[key]) = "string"
    THEN Some(NewPattern(Payload(settings[key]))) ELSE None

ShellVariablesOk(settings) ==
    "shellVariables" \in DOMAIN settings =>
        /\ Kind(settings["shellVariables"]) = "object"
        /\ \A n \in DOMAIN Payload(settings["shellVariables"]) :
               Kind(Payload(settings["shellVariables"])[n]) = "string"

ShellVariablesValue(settings) ==
    IF "shellVariables" \in DOMAIN settings
    THEN [n \in DOMAIN Payload(settings["shellVariables"]) |->
              Payload(Payload(settings["shellVariables"])[n])]
    ELSE EmptyDict

\* serde_json::from_value::<MetadataItems> succeeds on a map.  The last field,
\* __allow_adding_fields_without_major_semver_bump, is a unit: when its key is
\* present it has to be null.
ItemsDeserializable(settings) ==
    /\ \A i \in 1..Len(PatternFields) : PatternFieldOk(settings, PatternFields[i][2])
    /\ "indentParens" \in DOMAIN settings =>
           Kind(settings["indentParens"]) \in {"bool", "null"}
    /\ ShellVariablesOk(settings)
    /\ "lineComment" \in DOMAIN settings =>
           Kind(settings["lineComment"]) \in {"string", "null"}
    /\ "blockComment" \in DOMAIN settings =>
           \/ Kind(settings["blockComment"]) = "null"
           \/ /\ Kind(settings["blockComment"]) = "array"
              /\ Len(Payload(settings["blockComment"])) = 2
              /\ \A i \in 1..2 : Kind(Payload(settings["blockComment"])[i]) = "string"
    /\ "allowAddingFieldsWithoutMajorSemverBump" \in DOMAIN settings =>
           Kind(settings["allowAddingFieldsWithoutMajorSemverBump"]) = "null"

\* The MetadataItems deserialized from settings, given its two comment fields.
MetadataItems(settings, line_comment, block_comment) ==
    [ increase_indent_pattern          |-> PatternFieldValue(settings, PatternFields[1][2]),
      decrease_indent_pattern          |-> PatternFieldValue(settings, PatternFields[2][2]),
      bracket_indent_next_line_pattern |-> PatternFieldValue(settings, PatternFields[3][2]),
      disable_indent_next_line_pattern |-> PatternFieldValue(settings, PatternFields[4][2]),
      unindented_line_pattern          |-> PatternFieldValue(settings, PatternFields[5][2]),
      indent_parens   |-> IF "indentParens" \in DOMAIN settings
                             /\ Kind(settings["indentParens"]) = "bool"
                          THEN Some(Payload(settings["indentParens"])) ELSE None,
      shell_variables |-> ShellVariablesValue(settings),
      line_comment    |-> line_comment,
      block_comment   |-> block_comment ]

NoSet == [selector_string |-> 0, selector |-> 0, items |-> EmptyDict]

from_raw(tup) ==
    LET selector_string == tup[1]
        settings == DictRemove(tup[2], "source_file_path")
        hasVars == /\ "shellVariables" \in DOMAIN settings
                   /\ Kind(settings["shellVariables"]) = "object"
        line_comment  == IF hasVars
                         THEN get_line_comment_marker(Payload(settings["shellVariables"]))
                         ELSE [tag |-> "Ok", val |-> None]
        block_comment == IF hasVars
                         THEN get_block_comment_markers(Payload(settings["shellVariables"]))
                         ELSE [tag |-> "Ok", val |-> None]
    IN  IF ~\E i \in 1..Len(KEYS_WE_USE) : KEYS_WE_USE[i] \in DOMAIN settings
        THEN [tag |-> "Err", set |-> NoSet]
        ELSE IF line_comment.tag = "Panic" \/ block_comment.tag = "Panic"
        THEN [tag |-> "Panic", set |-> NoSet]
        ELSE IF ~ItemsDeserializable(settings)
        THEN [tag |-> "Err", set |-> NoSet]
        ELSE IF ~SelectorParses(selector_string)
        THEN [tag |-> "Err", set |-> NoSet]
        ELSE [tag |-> "Ok",
              set |-> [selector_string |-> selector_string,
                       selector        |-> selector_string,
                       items |-> MetadataItems(settings, line_comment.val,
                                               block_comment.val)]]

----------------------------------------------------------------------------
(* impl From<LoadMetadata> for Metadata *)

RawMetadataEntry(path, scope, settings) ==
    [path |-> path, scope |-> scope, settings |-> settings]

\* The value a RawMetadataEntry's path leaves in the Dict: to_string_lossy()
\* of the path, a JSON string.
PathString(path) == <<"string", <<"path", path>>>>

\* serde_json::from_value::<KeyPair> succeeds on one element of the list.
\* The derived Deserialize of a struct reads a map by field name (name a string,
\* value any Settings, other keys ignored) or a sequence holding exactly the
\* fields in declaration order.
IsKeyPair(j) ==
    \/ /\ Kind(j) = "object"
       /\ "name" \in DOMAIN Payload(j)
       /\ Kind(Payload(j)["name"]) = "string"
       /\ "value" \in DOMAIN Payload(j)
    \/ /\ Kind(j) = "array"
       /\ Len(Payload(j)) = 2
       /\ Kind(Payload(j)[1]) = "string"

\* The fields of a deserialized KeyPair.
KeyPairName(j) ==
    IF Kind(j) = "object" THEN Payload(Payload(j)["name"]) ELSE Payload(Payload(j)[1])

KeyPairValue(j) ==
    IF Kind(j) = "object" THEN Payload(j)["value"] ELSE Payload(j)[2]

\* serde_json::from_value::<ShellVars> succeeds.
IsShellVars(vars_) ==
    /\ Kind(vars_) = "array"
    /\ \A i \in 1..Len(Payload(vars_)) : IsKeyPair(Payload(vars_)[i])

RECURSIVE InsertKeyPairs(_, _, _)
InsertKeyPairs(shell_vars, pairs, i) ==
    IF i > Len(pairs) THEN shell_vars
    ELSE InsertKeyPairs(
             DictInsert(shell_vars, KeyPairName(pairs[i]), KeyPairValue(pairs[i])),
             pairs, i + 1)

\* The slot obj.entry("shellVariables").or_insert_with(Dict::new) yields.
ShellVariablesEntry(obj) ==
    IF "shellVariables" \in DOMAIN obj THEN obj["shellVariables"] ELSE JObj(EmptyDict)

\* A variant that empties the variable table when the entry's list is malformed.
append_vars_clearing_on_error(obj, vars_, scope) ==
    LET slot == ShellVariablesEntry(obj)
    IN  IF Kind(slot) # "object" THEN [tag |-> "Panic", obj |-> obj]
        ELSE IF IsShellVars(vars_)
        THEN [tag |-> "Ok",
              obj |-> DictInsert(obj, "shellVariables",
                                 JObj(InsertKeyPairs(Payload(slot), Payload(vars_), 1)))]
        ELSE [tag |-> "Ok", obj |-> DictInsert(obj, "shellVariables", JObj(EmptyDict))]

\* A variant that replaces the whole variable table by the entry's list.
append_vars_replacing_table(obj, vars_, scope) ==
    LET slot == ShellVariablesEntry(obj)
    IN  IF Kind(slot) # "object" THEN [tag |-> "Panic", obj |-> obj]
        ELSE IF IsShellVars(vars_)
        THEN [tag |-> "Ok",
              obj |-> DictInsert(obj, "shellVariables",
                                 JObj(InsertKeyPairs(EmptyDict, Payload(vars_), 1)))]
        ELSE [tag |-> "Ok", obj |-> DictInsert(obj, "shellVariables", JObj(EmptyDict))]

\* The Dict after the call, or the panic of as_object_mut().unwrap() on a
\* shellVariables slot that holds no object.
append_vars(obj, vars_, scope) ==
    LET slot == ShellVariablesEntry(obj)
    IN  IF Kind(slot) # "object" THEN [tag |-> "Panic", obj |-> obj]
        ELSE IF IsShellVars(vars_)
        THEN [tag |-> "Ok",
              obj |-> DictInsert(obj, "shellVariables",
                                 JObj(InsertKeyPairs(Payload(slot), Payload(vars_), 1)))]
        ELSE [tag |-> "Ok", obj |-> DictInsert(obj, "shellVariables", slot)]

\* The body of the loop over one entry's settings.  The keys of a Dict are
\* distinct and each writes its own slot, so the iteration order is immaterial.
MergeSettings(scoped_settings, settings, scope) ==
    LET used == {key \in DOMAIN settings : InKeysWeUse(key)}
        inserted == used \ {"shellVariables"}
        plain == [key \in (DOMAIN scoped_settings) \cup inserted |->
                     IF key \in inserted THEN settings[key] ELSE scoped_settings[key]]
    IN  IF "shellVariables" \in used
        THEN append_vars(plain, settings["shellVariables"], scope)
        ELSE [tag |-> "Ok", obj |-> plain]

\* The loop over the sorted entries: scoped_metadata as a function from
\* selector text to Dict.
RECURSIVE GroupByScope(_, _, _)
GroupByScope(sorted, i, scoped_metadata) ==
    IF i > Len(sorted) THEN [panicked |-> FALSE, scoped_metadata |-> scoped_metadata]
    ELSE LET e == sorted[i]
             scoped_settings ==
                 IF e.scope \in DOMAIN scoped_metadata
                 THEN scoped_metadata[e.scope]
                 ELSE ("source_file_path" :> PathString(e.path))
             merged == MergeSettings(scoped_settings, e.settings, e.scope)
         IN  IF merged.tag = "Panic"
             THEN [panicked |-> TRUE, scoped_metadata |-> scoped_metadata]
             ELSE GroupByScope(sorted, i + 1,
                      [k \in (DOMAIN scoped_metadata) \cup {e.scope} |->
                           IF k = e.scope THEN merged.obj ELSE scoped_metadata[k]])

\* A variant that yields the keys in descending order.
RECURSIVE DescendingKeys(_)
DescendingKeys(S) ==
    IF S = {} THEN <<>>
    ELSE LET m == CHOOSE x \in S : \A y \in S : x >= y
         IN  <<m>> \o DescendingKeys(S \ {m})

\* BTreeMap::into_iter: the keys in ascending order.
RECURSIVE AscendingKeys(_)
AscendingKeys(S) ==
    IF S = {} THEN <<>>
    ELSE LET m == CHOOSE x \in S : \A y \in S : x <= y
         IN  <<m>> \o AscendingKeys(S \ {m})

RECURSIVE FlattenOk(_, _)
FlattenOk(results, i) ==
    IF i > Len(results) THEN <<>>
    ELSE IF results[i].tag = "Ok"
         THEN <<results[i].set>> \o FlattenOk(results, i + 1)
         ELSE FlattenOk(results, i + 1)

\* Every outcome sort_unstable_by may produce: the entries in non-decreasing
\* order of path, entries of equal path in any order.
Permutations_(n) == {f \in [1..n -> 1..n] : \A i, j \in 1..n : f[i] = f[j] => i = j}

Reorderings(s) == {[i \in 1..Len(s) |-> s[f[i]]] : f \in Permutations_(Len(s))}

IsSortedByPath(s) == \A i \in 1..(Len(s) - 1) : s[i].path <= s[i + 1].path

\* A variant that leaves the entries in the order they were added.
sort_skipped(s) == {s}

sort_unstable_by_path(s) == {t \in Reorderings(s) : IsSortedByPath(t)}

\* The conversion once the entries are sorted.
from_sorted(sorted) ==
    LET grouped == GroupByScope(sorted, 1, EmptyDict)
        scoped_metadata == grouped.scoped_metadata
        keys == AscendingKeys(DOMAIN scoped_metadata)
        results == [i \in 1..Len(keys) |-> from_raw(<<keys[i], scoped_metadata[keys[i]]>>)]
    IN  IF grouped.panicked \/ \E i \in 1..Len(keys) : results[i].tag = "Panic"
        THEN [panicked |-> TRUE, scoped_metadata |-> <<>>]
        ELSE [panicked |-> FALSE, scoped_metadata |-> FlattenOk(results, 1)]

\* Metadata::from(LoadMetadata): one outcome per outcome of the sort.
from(loaded_) == {from_sorted(sorted) : sorted \in sort_unstable_by_path(loaded_)}

----------------------------------------------------------------------------
(* Metadata::merged_with_raw *)

RECURSIVE InsertSets(_, _, _)
InsertSets(final_items, sets, i) ==
    IF i > Len(sets) THEN final_items
    ELSE InsertSets(
             [k \in (DOMAIN final_items) \cup {sets[i].selector_string} |->
                  IF k = sets[i].selector_string THEN sets[i] ELSE final_items[k]],
             sets, i + 1)

\* A variant that appends the new entries to the existing ones.
merged_with_raw_appending(self_, converted) ==
    IF converted.panicked THEN [panicked |-> TRUE, scoped_metadata |-> <<>>]
    ELSE [panicked |-> FALSE, scoped_metadata |-> self_ \o converted.scoped_metadata]

\* A variant in which an existing entry wins over a new one of the same selector.
merged_with_raw_existing_wins(self_, converted) ==
    IF converted.panicked THEN [panicked |-> TRUE, scoped_metadata |-> <<>>]
    ELSE LET fresh == InsertSets(EmptyDict, converted.scoped_metadata, 1)
             final_items == InsertSets(fresh, self_, 1)
             keys == AscendingKeys(DOMAIN final_items)
         IN  [panicked |-> FALSE,
              scoped_metadata |-> [i \in 1..Len(keys) |-> final_items[keys[i]]]]

\* self_ is the existing scoped_metadata, converted the outcome of raw.into().
merged_with_raw(self_, converted) ==
    IF converted.panicked THEN [panicked |-> TRUE, scoped_metadata |-> <<>>]
    ELSE LET existing == InsertSets(EmptyDict, self_, 1)
             final_items == InsertSets(existing, converted.scoped_metadata, 1)
             keys == AscendingKeys(DOMAIN final_items)
         IN  [panicked |-> FALSE,
              scoped_metadata |-> [i \in 1..Len(keys) |-> final_items[keys[i]]]]

----------------------------------------------------------------------------
(* Bounds and inputs of the merge specification *)

MaxLoaded == 2      \* add_raw calls in one behaviour
MaxPath == 2        \* paths are ranks 1..MaxPath

Paths == 1..MaxPath
Selectors == {1, 2}

KeyPair(name, value) == JObj(("name" :> JStr(name)) @@ ("value" :> value))

\* The same pair written as the sequence of its fields.
KeyPairSeq(name, value) == JArr(<<JStr(name), value>>)

\* The settings of the .tmPreferences files the environment supplies.
SettingsInputs ==
    { ("increaseIndentPattern" :> JStr("a")),
      ("increaseIndentPattern" :> JStr("b")) @@ ("unIndentedLinePattern" :> JStr("a")),
      ("indentParens" :> JBool(TRUE))
          @@ ("shellVariables" :> JArr(<<KeyPair("TM_COMMENT_START", JStr("//"))>>)),
      ("shellVariables" :> JArr(<<KeyPair("TM_COMMENT_START", JStr("/*")),
                                  KeyPair("TM_COMMENT_END", JStr("*/"))>>)),
      ("shellVariables" :> JArr(<<KeyPairSeq("TM_COMMENT_START_2", JStr("--"))>>)),
      ("name" :> JStr("Comments")) }

RawInputs ==
    {RawMetadataEntry(p, sc, st) : p \in Paths, sc \in Selectors, st \in SettingsInputs}

----------------------------------------------------------------------------
(* State machine *)

NoTuple == <<0, EmptyDict>>
NoResult == [tag |-> "None", set |-> NoSet]
MaxThreads == 2     \* threads calling is_match on the shared Pattern
Threads == 1..MaxThreads
\* A Pattern whose AtomicLazyCell is new: the state word and the empty slot.
SharedPattern(regex_str) == [regex_str |-> regex_str, state |-> "NONE", inner |-> None]

MergeInit ==
    /\ loaded = <<>>
    /\ metadata = <<>>
    /\ src = <<>>
    /\ prev = <<>>
    /\ op = "default"
    /\ added = 0
    /\ panicked = FALSE

RawInit ==
    /\ tuple = NoTuple
    /\ built = NoResult

QueryInit ==
    /\ scores = EmptyDict
    /\ scoped = <<>>
    /\ call = <<"none", "">>
    /\ ret = None

PatternInit ==
    /\ pattern = SharedPattern("a")
    /\ pc = [t \in Threads |-> "idle"]
    /\ arg = [t \in Threads |-> ""]
    /\ tmp = [t \in Threads |-> None]
    /\ out = [t \in Threads |-> None]

SerdeInit ==
    /\ orig = NewPattern("a")
    /\ copy = None
    /\ wire = None
    /\ set = None
    /\ back = NoResult

\* LoadMetadata::default() and Metadata::default(); nothing else has run.
Init == MergeInit /\ RawInit /\ QueryInit /\ PatternInit /\ SerdeInit

\* LoadMetadata::add_raw
add_raw(raw) ==
    /\ ~panicked
    /\ added < MaxLoaded
    /\ loaded' = Append(loaded, raw)
    /\ added' = added + 1
    /\ src' = <<>>
    /\ prev' = <<>>
    /\ op' = "add_raw"
    /\ UNCHANGED <<metadata, panicked>>
    /\ UNCHANGED <<rawVars, queryVars, patternVars, serdeVars>>

\* let metadata: Metadata = loaded.into()
Into ==
    /\ ~panicked
    /\ \E converted \in from(loaded) :
           /\ panicked' = converted.panicked
           /\ metadata' = IF converted.panicked THEN metadata
                          ELSE converted.scoped_metadata
    /\ src' = loaded
    /\ prev' = metadata
    /\ op' = "from"
    /\ loaded' = <<>>
    /\ UNCHANGED added
    /\ UNCHANGED <<rawVars, queryVars, patternVars, serdeVars>>

\* metadata = metadata.merged_with_raw(loaded)
MergedWithRaw ==
    /\ ~panicked
    /\ \E converted \in from(loaded) :
           LET merged == merged_with_raw(metadata, converted)
           IN  /\ panicked' = merged.panicked
               /\ metadata' = IF merged.panicked THEN metadata
                              ELSE merged.scoped_metadata
    /\ src' = loaded
    /\ prev' = metadata
    /\ op' = "merged_with_raw"
    /\ loaded' = <<>>
    /\ UNCHANGED added
    /\ UNCHANGED <<rawVars, queryVars, patternVars, serdeVars>>

AddRaw == \E raw \in RawInputs : add_raw(raw)

NextMerge == AddRaw \/ Into \/ MergedWithRaw

SpecMerge == Init /\ [][NextMerge]_vars

----------------------------------------------------------------------------
(* Loading files of which some cannot be turned into a fragment *)

\* Settings that build, settings whose comment variable is a number, settings
\* whose pattern is a number, and settings without any recognized key.
FaultSettingsInputs ==
    { ("increaseIndentPattern" :> JStr("a")),
      ("shellVariables" :> JArr(<<KeyPair("TM_COMMENT_START", JNum(0))>>)),
      ("increaseIndentPattern" :> JNum(0)),
      ("name" :> JStr("Comments")) }

\* Selector text 0 does not parse.
FaultSelectors == {0, 1, 2}

FaultInputs ==
    {RawMetadataEntry(p, sc, st) :
         p \in Paths, sc \in FaultSelectors, st \in FaultSettingsInputs}

AddRawFault == \E raw \in FaultInputs : add_raw(raw)

NextFault == AddRawFault \/ Into \/ MergedWithRaw

SpecFault == Init /\ [][NextFault]_vars

----------------------------------------------------------------------------
(* Loading files whose shellVariables are spread over files or malformed *)

\* A list with an element that is no name/value pair, beside another key; a
\* shellVariables that is no list; a start marker only; an end marker only,
\* its pair written as a sequence.
VarsSettingsInputs ==
    { ("increaseIndentPattern" :> JStr("a"))
          @@ ("shellVariables" :> JArr(<<KeyPair("TM_COMMENT_START", JStr("//")),
                                         JStr("TM_COMMENT_END")>>)),
      ("shellVariables" :> JStr("TM_COMMENT_START")),
      ("shellVariables" :> JArr(<<KeyPair("TM_COMMENT_START", JStr("/*"))>>)),
      ("shellVariables" :> JArr(<<KeyPairSeq("TM_COMMENT_END", JStr("*/"))>>)) }

VarsInputs ==
    {RawMetadataEntry(p, sc, st) : p \in Paths, sc \in Selectors, st \in VarsSettingsInputs}

AddRawVars == \E raw \in VarsInputs : add_raw(raw)

NextVars == AddRawVars \/ Into \/ MergedWithRaw

SpecVars == Init /\ [][NextVars]_vars

----------------------------------------------------------------------------
(* MetadataSet::from_raw called directly on a (selector, settings) tuple *)

CommentNames == UNION {{COMMENT_KEYS[i][1], COMMENT_KEYS[i][2]} : i \in 1..Len(COMMENT_KEYS)}

VarValueInputs == {JStr("//"), JStr("*/"), JNum(0)}

VarMapInputs == UNION {[D -> VarValueInputs] : D \in SUBSET CommentNames}

RawTupleInputs ==
    {<<sel, st>> : sel \in {0, 1},
                   st \in {("shellVariables" :> JObj(vm)) : vm \in VarMapInputs}
                          \cup { EmptyDict,
                                 ("shellVariables" :> JStr("//")),
                                 ("increaseIndentPattern" :> JStr("a")),
                                 ("increaseIndentPattern" :> JStr("a"))
                                     @@ ("allowAddingFieldsWithoutMajorSemverBump" :> JStr("x")) }}

InitRaw ==
    /\ MergeInit /\ QueryInit /\ PatternInit /\ SerdeInit
    /\ tuple \in RawTupleInputs
    /\ built = NoResult

\* built = MetadataSet::from_raw(tuple)
FromRaw ==
    /\ ~panicked
    /\ built = NoResult
    /\ built' = from_raw(tuple)
    /\ panicked' = (built'.tag = "Panic")
    /\ UNCHANGED <<tuple, loaded, metadata, src, prev, op, added>>
    /\ UNCHANGED <<queryVars, patternVars, serdeVars>>

NextRaw == FromRaw

SpecRaw == InitRaw /\ [][NextRaw]_vars

----------------------------------------------------------------------------
(* Pattern::is_match, one call run to completion *)

\* onig's Regex::new accepts the source string.
RegexCompiles(regex_str) == regex_str # "("

\* Regex::match_with_options(string, 0, ..).is_some(): the regex matches at
\* position 0 of the string.  The regexes in use are the literals "a" and "b".
match_with_options(regex, string) ==
    <<regex, string>> \in {<<"a", "a">>, <<"a", "ab">>, <<"b", "b">>, <<"b", "ba">>}

\* Pattern::regex: the Pattern afterwards, or a panic of expect().
regex_(self_) ==
    IF IsSome(self_.regex) THEN [panicked |-> FALSE, pattern |-> self_]
    ELSE IF RegexCompiles(self_.regex_str)
    THEN [panicked |-> FALSE,
          pattern |-> [self_ EXCEPT !.regex = Some(self_.regex_str)]]
    ELSE [panicked |-> TRUE, pattern |-> self_]

is_match(self_, string) ==
    LET r == regex_(self_)
    IN  [panicked |-> r.panicked,
         pattern  |-> r.pattern,
         value    |-> ~r.panicked /\ match_with_options(Unwrap(r.pattern.regex), string)]

----------------------------------------------------------------------------
(* Metadata::metadata_for_scope and the ScopedMetadata accessors *)

MaxSets == 2        \* entries of the Metadata that is queried

\* selector.does_match(scope): the scope stack is given by the score, if any,
\* each selector has against it.
does_match(selector, scope) == scope[selector]

RECURSIVE FilterMap(_, _, _)
FilterMap(md, scope, i) ==
    IF i > Len(md) THEN <<>>
    ELSE LET score == does_match(md[i].selector, scope)
         IN  IF IsSome(score)
             THEN <<[power |-> Unwrap(score), meta_set |-> i]>> \o FilterMap(md, scope, i + 1)
             ELSE FilterMap(md, scope, i + 1)

IsSortedByPowerDescending(s) == \A i \in 1..(Len(s) - 1) : s[i].power >= s[i + 1].power

\* A variant that orders the items by ascending score.
sort_by_power_ascending(s) ==
    {t \in Reorderings(s) : \A i \in 1..(Len(t) - 1) : t[i].power <= t[i + 1].power}

\* A variant that leaves the items in the order of the collection.
sort_by_power_skipped(s) == {s}

\* Every outcome sort_unstable_by(|a, b| b.0.cmp(&a.0)) may produce.
sort_unstable_by_power(s) == {t \in Reorderings(s) : IsSortedByPowerDescending(t)}

\* ScopedMetadata.items, each item a score and a reference into md.
metadata_for_scope(md, scope) == sort_unstable_by_power(FilterMap(md, scope, 1))

\* The field of the MetadataItems the i-th ranked item refers to.
ItemField(md, items_, i, field) == md[items_[i].meta_set].items[field]

\* The position of the first ranked item whose field is Some.
RECURSIVE position(_, _, _, _)
position(md, items_, field, i) ==
    IF i > Len(items_) THEN None
    ELSE IF IsSome(ItemField(md, items_, i, field)) THEN Some(i)
    ELSE position(md, items_, field, i + 1)

\* A variant that looks at the most specific item only.
best_match_top_only(md, items_, field) ==
    IF Len(items_) >= 1 /\ IsSome(ItemField(md, items_, 1, field)) THEN Some(1) ELSE None

\* ScopedMetadata::best_match: the item whose closure result is the first Some.
best_match(md, items_, field) == position(md, items_, field, 1)

\* A variant that answers true when no item defines the field.
unwrap_or_true(o) == IF IsSome(o) THEN Unwrap(o) ELSE TRUE

\* .unwrap_or(false)
unwrap_or_false(o) == IF IsSome(o) THEN Unwrap(o) ELSE FALSE

\* One of the five pattern accessors: the value returned, the Metadata with
\* the Pattern consulted compiled, or a panic.
pattern_accessor(md, items_, field, line) ==
    LET found == best_match(md, items_, field)
    IN  IF ~IsSome(found)
        THEN [panicked |-> FALSE, md |-> md, value |-> unwrap_or_false(None)]
        ELSE LET at == items_[Unwrap(found)].meta_set
                 m == is_match(Unwrap(md[at].items[field]), line)
             IN  [panicked |-> m.panicked,
                  md |-> [md EXCEPT ![at].items[field] = Some(m.pattern)],
                  value |-> unwrap_or_false(Some(m.value))]

\* line_comment and block_comment
comment_accessor(md, items_, field) ==
    LET idx == position(md, items_, field, 1)
    IN  IF ~IsSome(idx) THEN None ELSE ItemField(md, items_, Unwrap(idx), field)

QuerySettingsInputs ==
    { ("increaseIndentPattern" :> JStr("a")),
      ("decreaseIndentPattern" :> JStr("b"))
          @@ ("shellVariables" :> JObj(("TM_COMMENT_START" :> JStr("--")))),
      ("increaseIndentPattern" :> JStr("b"))
          @@ ("bracketIndentNextLinePattern" :> JStr("a"))
          @@ ("disableIndentNextLinePattern" :> JStr("b"))
          @@ ("unindentedLinePattern" :> JStr("("))
          @@ ("shellVariables" :> JObj(("TM_COMMENT_START" :> JStr("/*"))
                                       @@ ("TM_COMMENT_END" :> JStr("*/"))
                                       @@ ("TM_COMMENT_START_2" :> JStr("//")))) }

\* The MetadataSet values a queried Metadata is made of, each built by from_raw.
QuerySets == {from_raw(<<sel, st>>).set : sel \in Selectors, st \in QuerySettingsInputs}

LineInputs == {"a", "b"}

\* The scores a selector may have against the scope stack of the query.
PowerInputs == {1, 2}

ScoreInputs == [Selectors -> {None} \cup {Some(power) : power \in PowerInputs}]

InitQuery ==
    /\ loaded = <<>>
    /\ metadata \in UNION {[1..n -> QuerySets] : n \in 0..MaxSets}
    /\ src = <<>>
    /\ prev = <<>>
    /\ op = "default"
    /\ added = 0
    /\ panicked = FALSE
    /\ RawInit /\ QueryInit /\ PatternInit /\ SerdeInit

\* scoped = metadata.metadata_for_scope(scope)
MetadataForScope ==
    /\ ~panicked
    /\ op = "default"
    /\ \E scope \in ScoreInputs :
           /\ scores' = scope
           /\ scoped' \in metadata_for_scope(metadata, scope)
    /\ op' = "metadata_for_scope"
    /\ UNCHANGED <<loaded, metadata, src, prev, added, panicked, call, ret>>
    /\ UNCHANGED <<rawVars, patternVars, serdeVars>>

PatternAccessor(name, field) ==
    /\ ~panicked
    /\ op = "metadata_for_scope"
    /\ \E line \in LineInputs :
           LET r == pattern_accessor(metadata, scoped, field, line)
           IN  /\ call' = <<name, line>>
               /\ panicked' = r.panicked
               /\ metadata' = r.md
               /\ ret' = IF r.panicked THEN None ELSE Some(r.value)
    /\ UNCHANGED <<loaded, src, prev, op, added, scores, scoped>>
    /\ UNCHANGED <<rawVars, patternVars, serdeVars>>

CommentAccessor(name, field) ==
    /\ ~panicked
    /\ op = "metadata_for_scope"
    /\ call' = <<name, "">>
    /\ ret' = Some(comment_accessor(metadata, scoped, field))
    /\ UNCHANGED <<mergeVars, scores, scoped, rawVars, patternVars, serdeVars>>

unindented_line == PatternAccessor("unindented_line", "unindented_line_pattern")
decrease_indent == PatternAccessor("decrease_indent", "decrease_indent_pattern")
increase_indent == PatternAccessor("increase_indent", "increase_indent_pattern")
bracket_increase == PatternAccessor("bracket_increase", "bracket_indent_next_line_pattern")
disable_indent_next_line ==
    PatternAccessor("disable_indent_next_line", "disable_indent_next_line_pattern")
line_comment == CommentAccessor("line_comment", "line_comment")
block_comment == CommentAccessor("block_comment", "block_comment")

NextQuery ==
    \/ MetadataForScope
    \/ unindented_line
    \/ decrease_indent
    \/ increase_indent
    \/ bracket_increase
    \/ disable_indent_next_line
    \/ line_comment
    \/ block_comment

SpecQuery == InitQuery /\ [][NextQuery]_vars

----------------------------------------------------------------------------
(* merged_with_raw on a Metadata that was not built by a conversion: its      *)
(* entries are in any order and may repeat a selector text                    *)

OverlaySelectors == {1, 2, 3}

OverlaySets ==
    {from_raw(<<sel, ("increaseIndentPattern" :> JStr("a"))>>).set : sel \in OverlaySelectors}

OverlayInputs ==
    {RawMetadataEntry(p, sc, ("decreaseIndentPattern" :> JStr("b"))) :
         p \in Paths, sc \in OverlaySelectors}

InitOverlay ==
    /\ loaded = <<>>
    /\ metadata \in UNION {[1..n -> OverlaySets] : n \in 0..MaxSets}
    /\ src = <<>>
    /\ prev = <<>>
    /\ op = "default"
    /\ added = 0
    /\ panicked = FALSE
    /\ RawInit /\ QueryInit /\ PatternInit /\ SerdeInit

AddRawOverlay == \E raw \in OverlayInputs : add_raw(raw)

NextOverlay == AddRawOverlay \/ Into \/ MergedWithRaw

SpecOverlay == InitOverlay /\ [][NextOverlay]_vars

----------------------------------------------------------------------------
(* Pattern::is_match called from several threads on one Pattern               *)
(*                                                                            *)
(* The cell is lazycell's AtomicLazyCell: an atomic state word NONE, LOCK or  *)
(* SOME and a slot.  borrow() loads the word and yields the slot only when it *)
(* reads SOME.  fill() compare-and-swaps NONE to LOCK (returning Err to the   *)
(* caller when the word was not NONE), writes the slot, then swaps LOCK to    *)
(* SOME.  Each atomic access is one step.                                     *)

PatternStrInputs == {"a", "b", "("}

InitPattern ==
    /\ MergeInit /\ RawInit /\ QueryInit /\ SerdeInit
    /\ pattern \in {SharedPattern(regex_str) : regex_str \in PatternStrInputs}
    /\ pc = [t \in Threads |-> "idle"]
    /\ arg = [t \in Threads |-> ""]
    /\ tmp = [t \in Threads |-> None]
    /\ out = [t \in Threads |-> None]

\* A thread calls is_match(string) and enters regex().
Call(t) ==
    /\ pc[t] = "idle"
    /\ \E string \in LineInputs : arg' = [arg EXCEPT ![t] = string]
    /\ pc' = [pc EXCEPT ![t] = "borrow"]
    /\ out' = [out EXCEPT ![t] = None]
    /\ UNCHANGED <<pattern, tmp>>
    /\ UNCHANGED <<mergeVars, rawVars, queryVars, serdeVars>>

\* if let Some(regex) = self.regex.borrow()
Borrow(t) ==
    /\ pc[t] = "borrow"
    /\ pc' = [pc EXCEPT ![t] = IF pattern.state = "SOME" THEN "match" ELSE "compile"]
    /\ UNCHANGED <<pattern, arg, tmp, out>>
    /\ UNCHANGED <<mergeVars, rawVars, queryVars, serdeVars>>

\* Regex::new(&self.regex_str).expect(..)
Compile(t) ==
    /\ pc[t] = "compile"
    /\ IF RegexCompiles(pattern.regex_str)
       THEN /\ tmp' = [tmp EXCEPT ![t] = Some(pattern.regex_str)]
            /\ pc' = [pc EXCEPT ![t] = "fill"]
       ELSE /\ tmp' = tmp
            /\ pc' = [pc EXCEPT ![t] = "panicked"]
    /\ UNCHANGED <<pattern, arg, out>>
    /\ UNCHANGED <<mergeVars, rawVars, queryVars, serdeVars>>

\* self.regex.fill(regex): the compare-and-swap of NONE to LOCK; on failure
\* fill returns Err(regex), which .ok() drops.
FillLock(t) ==
    /\ pc[t] = "fill"
    /\ IF pattern.state = "NONE"
       THEN /\ pattern' = [pattern EXCEPT !.state = "LOCK"]
            /\ pc' = [pc EXCEPT ![t] = "write"]
            /\ tmp' = tmp
       ELSE /\ pattern' = pattern
            /\ pc' = [pc EXCEPT ![t] = "reborrow"]
            /\ tmp' = [tmp EXCEPT ![t] = None]
    /\ UNCHANGED <<arg, out>>
    /\ UNCHANGED <<mergeVars, rawVars, queryVars, serdeVars>>

\* fill: the write of the slot
FillWrite(t) ==
    /\ pc[t] = "write"
    /\ pattern' = [pattern EXCEPT !.inner = tmp[t]]
    /\ tmp' = [tmp EXCEPT ![t] = None]
    /\ pc' = [pc EXCEPT ![t] = "release"]
    /\ UNCHANGED <<arg, out>>
    /\ UNCHANGED <<mergeVars, rawVars, queryVars, serdeVars>>

\* fill: the compare-and-swap of LOCK to SOME
FillRelease(t) ==
    /\ pc[t] = "release"
    /\ pattern' = [pattern EXCEPT !.state = "SOME"]
    /\ pc' = [pc EXCEPT ![t] = "reborrow"]
    /\ UNCHANGED <<arg, tmp, out>>
    /\ UNCHANGED <<mergeVars, rawVars, queryVars, serdeVars>>

\* self.regex.borrow().unwrap()
Reborrow(t) ==
    /\ pc[t] = "reborrow"
    /\ pc' = [pc EXCEPT ![t] = IF pattern.state = "SOME" THEN "match" ELSE "panicked"]
    /\ UNCHANGED <<pattern, arg, tmp, out>>
    /\ UNCHANGED <<mergeVars, rawVars, queryVars, serdeVars>>

\* match_with_options(..).is_some() on the borrowed Regex
Match(t) ==
    /\ pc[t] = "match"
    /\ out' = [out EXCEPT ![t] = Some(match_with_options(Unwrap(pattern.inner), arg[t]))]
    /\ pc' = [pc EXCEPT ![t] = "idle"]
    /\ UNCHANGED <<pattern, arg, tmp>>
    /\ UNCHANGED <<mergeVars, rawVars, queryVars, serdeVars>>

NextPattern ==
    \E t \in Threads :
        \/ Call(t)
        \/ Borrow(t)
        \/ Compile(t)
        \/ FillLock(t)
        \/ FillWrite(t)
        \/ FillRelease(t)
        \/ Reborrow(t)
        \/ Match(t)

SpecPattern == InitPattern /\ [][NextPattern]_vars

----------------------------------------------------------------------------
(* Clone, PartialEq, Serialize and Deserialize of Pattern; Serialize and      *)
(* Deserialize of MetadataSet.  A serialized form is written as the           *)
(* serde_json value the data model of serde gives.                            *)

\* A variant that copies the cell with its content.
clone_with_cache(self_) == self_

\* impl Clone for Pattern
clone(self_) == [regex_str |-> self_.regex_str, regex |-> None]

\* A variant that compares the cells as well.
eq_with_cache(self_, other) == self_ = other

\* impl PartialEq for Pattern
eq(self_, other) == self_.regex_str = other.regex_str

\* impl Serialize for Pattern
Pattern_serialize(self_) == JStr(self_.regex_str)

NoPattern == [regex_str |-> "", regex |-> None]

\* impl Deserialize for Pattern
Pattern_deserialize(value) ==
    IF Kind(value) = "string"
    THEN [tag |-> "Ok", pattern |-> [regex_str |-> Payload(value), regex |-> None]]
    ELSE [tag |-> "Err", pattern |-> NoPattern]

\* The keys of a serialized MetadataItems: the field names in camelCase.
ItemKeys ==
    {PatternFields[i][2] : i \in 1..Len(PatternFields)}
        \cup {"indentParens", "shellVariables", "lineComment", "blockComment",
              "allowAddingFieldsWithoutMajorSemverBump"}

\* #[derive(Serialize)] of MetadataItems
MetadataItems_serialize(items) ==
    [key \in ItemKeys |->
        IF \E i \in 1..Len(PatternFields) : PatternFields[i][2] = key
        THEN LET i == CHOOSE i \in 1..Len(PatternFields) : PatternFields[i][2] = key
                 field == items[PatternFields[i][1]]
             IN  IF IsSome(field) THEN Pattern_serialize(Unwrap(field)) ELSE JNull
        ELSE CASE key = "indentParens" ->
                      IF IsSome(items.indent_parens)
                      THEN JBool(Unwrap(items.indent_parens)) ELSE JNull
               [] key = "shellVariables" ->
                      JObj([n \in DOMAIN items.shell_variables |->
                                JStr(items.shell_variables[n])])
               [] key = "lineComment" ->
                      IF IsSome(items.line_comment)
                      THEN JStr(Unwrap(items.line_comment)) ELSE JNull
               [] key = "blockComment" ->
                      IF IsSome(items.block_comment)
                      THEN JArr(<<JStr(Unwrap(items.block_comment)[1]),
                                  JStr(Unwrap(items.block_comment)[2])>>)
                      ELSE JNull
               [] OTHER -> JNull]

\* The line_comment and block_comment fields as #[derive(Deserialize)] reads them.
StoredLineComment(d) ==
    IF "lineComment" \in DOMAIN d /\ Kind(d["lineComment"]) = "string"
    THEN Some(Payload(d["lineComment"])) ELSE None

StoredBlockComment(d) ==
    IF "blockComment" \in DOMAIN d /\ Kind(d["blockComment"]) = "array"
    THEN Some(<<Payload(Payload(d["blockComment"])[1]),
                Payload(Payload(d["blockComment"])[2])>>)
    ELSE None

\* impl Serialize for MetadataSet: MetaSetSerializable { selector_string, items: Some(items) }
MetadataSet_serialize(self_) ==
    JObj(("selector_string" :> JStr(self_.selector_string))
             @@ ("items" :> JObj(MetadataItems_serialize(self_.items))))

\* The comment markers the variables of a MetadataItems derive.
DerivedLineComment(shell_variables) ==
    get_line_comment_marker([n \in DOMAIN shell_variables |-> JStr(shell_variables[n])]).val

DerivedBlockComment(shell_variables) ==
    get_block_comment_markers([n \in DOMAIN shell_variables |-> JStr(shell_variables[n])]).val

\* The fields of MetadataItems and of MetaSetSerializable in declaration order,
\* under the names serde gives them.
MetadataItemsFields ==
    << "increaseIndentPattern", "decreaseIndentPattern",
       "bracketIndentNextLinePattern", "disableIndentNextLinePattern",
       "unindentedLinePattern", "indentParens", "shellVariables",
       "lineComment", "blockComment",
       "allowAddingFieldsWithoutMajorSemverBump" >>

MetaSetSerializableFields == << "selector_string", "items" >>

\* The derived Deserialize of a struct reads a map by field name or a sequence
\* by position: element i of the sequence is field i.
SeqAsMap(q, fields) ==
    [k \in {fields[i] : i \in 1..Len(q)} |->
         q[CHOOSE i \in 1..Len(q) : fields[i] = k]]

\* The sequence form of MetadataItems has every field, or every field but the
\* last, which is #[serde(default)].
IsMetadataItemsValue(value) ==
    \/ Kind(value) = "object"
    \/ /\ Kind(value) = "array"
       /\ Len(Payload(value)) \in {Len(MetadataItemsFields) - 1, Len(MetadataItemsFields)}

MetadataItemsMap(value) ==
    IF Kind(value) = "object" THEN Payload(value)
    ELSE SeqAsMap(Payload(value), MetadataItemsFields)

\* The sequence form of MetaSetSerializable has both fields.
IsMetaSetSerializableValue(value) ==
    \/ Kind(value) = "object"
    \/ /\ Kind(value) = "array"
       /\ Len(Payload(value)) = Len(MetaSetSerializableFields)

MetaSetSerializableMap(value) ==
    IF Kind(value) = "object" THEN Payload(value)
    ELSE SeqAsMap(Payload(value), MetaSetSerializableFields)

\* impl Deserialize for MetadataSet
MetadataSet_deserialize(value) ==
    LET d == MetaSetSerializableMap(value)
        hasItems == "items" \in DOMAIN d /\ Kind(d["items"]) # "null"
        items == MetadataItemsMap(d["items"])
    IN  IF ~IsMetaSetSerializableValue(value) \/ "selector_string" \notin DOMAIN d
           \/ Kind(d["selector_string"]) # "string"
        THEN [tag |-> "Err", set |-> NoSet]
        ELSE IF hasItems /\ (~IsMetadataItemsValue(d["items"])
                                \/ ~ItemsDeserializable(items))
        THEN [tag |-> "Err", set |-> NoSet]
        ELSE IF ~SelectorParses(Payload(d["selector_string"])) \/ ~hasItems
        THEN [tag |-> "Err", set |-> NoSet]
        ELSE [tag |-> "Ok",
              set |-> [selector_string |-> Payload(d["selector_string"]),
                       selector        |-> Payload(d["selector_string"]),
                       items |-> MetadataItems(items,
                                               StoredLineComment(items),
                                               StoredBlockComment(items))]]

\* Dumps a MetadataSet is read from, not all of them written by
\* MetadataSet::serialize.
DumpInputs ==
          { JObj(("selector_string" :> JStr(1))
                        @@ ("items" :> JObj(("lineComment" :> JStr("#"))))),
               JObj(("selector_string" :> JStr(1))
                        @@ ("items" :> JObj(("shellVariables" :>
                                                JObj(("TM_COMMENT_START" :> JStr("/*"))
                                                     @@ ("TM_COMMENT_END" :> JStr("*/"))))
                                            @@ ("lineComment" :> JStr("//"))
                                            @@ ("decreaseIndentPattern" :> JNull)))),
               JObj(("selector_string" :> JStr(1))),
               JObj(("selector_string" :> JStr(0)) @@ ("items" :> JObj(EmptyDict))),
               JObj(("selector_string" :> JStr(1))
                        @@ ("items" :> JObj(("lineComment" :> JStr("#"))
                                 @@ ("allowAddingFieldsWithoutMajorSemverBump" :> JStr("x"))))),
               JArr(<<JStr(1), JObj(("lineComment" :> JStr("#")))>>),
               JObj(("selector_string" :> JStr(2))
                        @@ ("items" :> JArr(<<JStr("a"), JNull, JNull, JNull, JNull,
                                              JBool(TRUE),
                                              JObj(("TM_COMMENT_START" :> JStr("//"))),
                                              JStr("#"),
                                              JArr(<<JStr("/*"), JStr("*/")>>)>>))),
               JStr("a") }

InitSerde ==
    /\ MergeInit /\ RawInit /\ QueryInit /\ PatternInit
    /\ orig \in {[regex_str |-> regex_str, regex |-> None] : regex_str \in PatternStrInputs}
    /\ copy = None
    /\ wire = None
    /\ set = None
    /\ back = NoResult

\* orig.is_match(line)
IsMatchOrig ==
    /\ ~panicked
    /\ \E line \in LineInputs :
           LET r == is_match(orig, line)
           IN  /\ orig' = r.pattern
               /\ panicked' = r.panicked
    /\ op' = "is_match"
    /\ UNCHANGED <<loaded, metadata, src, prev, added>>
    /\ UNCHANGED <<copy, wire, set, back>>
    /\ UNCHANGED <<rawVars, queryVars, patternVars>>

\* copy.is_match(line)
IsMatchCopy ==
    /\ ~panicked
    /\ IsSome(copy)
    /\ \E line \in LineInputs :
           LET r == is_match(Unwrap(copy), line)
           IN  /\ copy' = Some(r.pattern)
               /\ panicked' = r.panicked
    /\ op' = "is_match_copy"
    /\ UNCHANGED <<loaded, metadata, src, prev, added>>
    /\ UNCHANGED <<orig, wire, set, back>>
    /\ UNCHANGED <<rawVars, queryVars, patternVars>>

\* copy = orig.clone()
Clone ==
    /\ ~panicked
    /\ copy' = Some(clone(orig))
    /\ op' = "clone"
    /\ UNCHANGED <<loaded, metadata, src, prev, added, panicked>>
    /\ UNCHANGED <<orig, wire, set, back>>
    /\ UNCHANGED <<rawVars, queryVars, patternVars>>

\* wire = serialize(orig)
SerializePattern ==
    /\ ~panicked
    /\ wire' = Some(Pattern_serialize(orig))
    /\ op' = "serialize"
    /\ UNCHANGED <<loaded, metadata, src, prev, added, panicked>>
    /\ UNCHANGED <<orig, copy, set, back>>
    /\ UNCHANGED <<rawVars, queryVars, patternVars>>

\* copy = deserialize::<Pattern>(wire)?
DeserializePattern ==
    /\ ~panicked
    /\ IsSome(wire)
    /\ LET r == Pattern_deserialize(Unwrap(wire))
       IN  /\ copy' = IF r.tag = "Ok" THEN Some(r.pattern) ELSE copy
           /\ op' = IF r.tag = "Ok" THEN "deserialize" ELSE "deserialize_failed"
    /\ UNCHANGED <<loaded, metadata, src, prev, added, panicked>>
    /\ UNCHANGED <<orig, wire, set, back>>
    /\ UNCHANGED <<rawVars, queryVars, patternVars>>

\* set = deserialize::<MetadataSet>(dump)?
LoadSet ==
    /\ ~panicked
    /\ \E dump \in DumpInputs :
           LET r == MetadataSet_deserialize(dump)
           IN  /\ set' = IF r.tag = "Ok" THEN Some(r.set) ELSE None
               /\ op' = IF r.tag = "Ok" THEN "load" ELSE "load_failed"
    /\ wire' = None
    /\ back' = NoResult
    /\ UNCHANGED <<loaded, metadata, src, prev, added, panicked>>
    /\ UNCHANGED <<orig, copy>>
    /\ UNCHANGED <<rawVars, queryVars, patternVars>>

\* set = MetadataSet::from_raw(tuple)?
FromRawSet ==
    /\ ~panicked
    /\ \E ms \in QuerySets : set' = Some(ms)
    /\ wire' = None
    /\ back' = NoResult
    /\ op' = "from_raw"
    /\ UNCHANGED <<loaded, metadata, src, prev, added, panicked>>
    /\ UNCHANGED <<orig, copy>>
    /\ UNCHANGED <<rawVars, queryVars, patternVars>>

\* wire = serialize(set)
SerializeSet ==
    /\ ~panicked
    /\ IsSome(set)
    /\ wire' = Some(MetadataSet_serialize(Unwrap(set)))
    /\ back' = NoResult
    /\ op' = "set_serialize"
    /\ UNCHANGED <<loaded, metadata, src, prev, added, panicked>>
    /\ UNCHANGED <<orig, copy, set>>
    /\ UNCHANGED <<rawVars, queryVars, patternVars>>

\* back = deserialize::<MetadataSet>(wire)
DeserializeSet ==
    /\ ~panicked
    /\ IsSome(wire)
    /\ back' = MetadataSet_deserialize(Unwrap(wire))
    /\ op' = "set_deserialize"
    /\ UNCHANGED <<loaded, metadata, src, prev, added, panicked>>
    /\ UNCHANGED <<orig, copy, wire, set>>
    /\ UNCHANGED <<rawVars, queryVars, patternVars>>

NextSerde ==
    \/ IsMatchOrig
    \/ IsMatchCopy
    \/ Clone
    \/ SerializePattern
    \/ DeserializePattern
    \/ LoadSet
    \/ FromRawSet
    \/ SerializeSet
    \/ DeserializeSet

SpecSerde == InitSerde /\ [][NextSerde]_vars

----------------------------------------------------------------------------
(* Vocabulary of the claims about merging *)

Converted == op \in {"from", "merged_with_raw"} /\ ~panicked

\* The entries of md whose selector text is sel.
Indices(md, sel) == {i \in 1..Len(md) : md[i].selector_string = sel}
SelectorsOf(md) == {md[i].selector_string : i \in 1..Len(md)}
Fragment(md, sel) == md[CHOOSE i \in 1..Len(md) : md[i].selector_string = sel]

\* The Metadata the operation just performed built from src alone.
Fresh == IF op = "from" THEN metadata ELSE <<>>

\* Entries of acc for scope sel that define the recognized key.
KeyDefiners(acc, sel, key) ==
    {i \in 1..Len(acc) : acc[i].scope = sel /\ key \in DOMAIN acc[i].settings}

\* Among them, those no other definer exceeds in path.
Greatest(acc, D) == {i \in D : \A j \in D : acc[j].path <= acc[i].path}

\* The variable names a raw entry defines, and the value it gives a name.
DefinedNames(e) ==
    IF "shellVariables" \in DOMAIN e.settings /\ IsShellVars(e.settings["shellVariables"])
    THEN {KeyPairName(Payload(e.settings["shellVariables"])[i]) :
              i \in 1..Len(Payload(e.settings["shellVariables"]))}
    ELSE {}

GivenValue(e, name) ==
    LET pairs == Payload(e.settings["shellVariables"])
        last == CHOOSE i \in 1..Len(pairs) :
                    /\ KeyPairName(pairs[i]) = name
                    /\ \A j \in (i + 1)..Len(pairs) :
                           KeyPairName(pairs[j]) # name
    IN  KeyPairValue(pairs[last])

NameDefiners(acc, sel, name) ==
    {i \in 1..Len(acc) : acc[i].scope = sel /\ name \in DefinedNames(acc[i])}

AllNames(acc) == UNION {DefinedNames(acc[i]) : i \in 1..Len(acc)}

DistinctPathsPerScope(acc) ==
    \A i, j \in 1..Len(acc) :
        (i # j /\ acc[i].scope = acc[j].scope) => acc[i].path # acc[j].path

\* The field of MetadataItems a recognized settings key is meant for.
FieldOfKey(items, key) ==
    CASE key = "increaseIndentPattern"        -> items.increase_indent_pattern
      [] key = "decreaseIndentPattern"        -> items.decrease_indent_pattern
      [] key = "bracketIndentNextLinePattern" -> items.bracket_indent_next_line_pattern
      [] key = "disableIndentNextLinePattern" -> items.disable_indent_next_line_pattern
      [] key = "unIndentedLinePattern"        -> items.unindented_line_pattern
      [] key = "indentParens"                 -> items.indent_parens

\* What a settings value is as a typed field value.
TypedValue(key, j) == IF key = "indentParens" THEN Payload(j) ELSE NewPattern(Payload(j))

ScalarKeys == {KEYS_WE_USE[i] : i \in 1..Len(KEYS_WE_USE)} \ {"shellVariables"}

----------------------------------------------------------------------------
(* C1 *)

\* C1 (as stated): the Metadata converted from an accumulator is the same for
\* every order in which its entries were added.
C1_AnyAccumulationOrder ==
    (op = "from") =>
        \A t \in Reorderings(src) : \A r \in from(t) :
            /\ r.panicked = panicked
            /\ ~panicked => r.scoped_metadata = metadata

\* C1 (amended): when the entries that share a scope selector have pairwise
\* different paths, the Metadata converted from an accumulator is the same for
\* every order in which its entries were added.
C1_AccumulationOrderDistinctPaths ==
    (op = "from" /\ DistinctPathsPerScope(src)) =>
        \A t \in Reorderings(src) : \A r \in from(t) :
            /\ r.panicked = panicked
            /\ ~panicked => r.scoped_metadata = metadata

\* Two entries of one scope that set the same key differently were added in
\* descending order of path, and converted.
C1_Witness ==
    /\ op = "from" /\ ~panicked
    /\ Len(src) = 2
    /\ src[1].scope = src[2].scope
    /\ src[1].path > src[2].path
    /\ "increaseIndentPattern" \in DOMAIN src[1].settings
    /\ "increaseIndentPattern" \in DOMAIN src[2].settings
    /\ src[1].settings["increaseIndentPattern"] # src[2].settings["increaseIndentPattern"]
    /\ Len(metadata) = 1

----------------------------------------------------------------------------
(* C2 *)

\* C2: in the fragment merged for a scope, a variable name is present exactly
\* when some entry of the scope defines it, and its value is the one given by
\* the definer of greatest path; a later entry whose list does not mention the
\* name leaves it alone.
C2_VariablesMergePerName ==
    (op = "from" /\ ~panicked) =>
        \A sel \in SelectorsOf(metadata) : \A name \in AllNames(src) :
            LET shell_variables == Fragment(metadata, sel).items.shell_variables
                D == NameDefiners(src, sel, name)
            IN  /\ name \in DOMAIN shell_variables <=> D # {}
                /\ D # {} =>
                       \E i \in Greatest(src, D) :
                           shell_variables[name] = Payload(GivenValue(src[i], name))

\* An earlier-path entry defines a name, a later-path entry of the same scope
\* brings a shellVariables list without it, and the name is still there.
C2_Witness ==
    /\ op = "from" /\ ~panicked
    /\ \E i, j \in 1..Len(src) : \E name \in DefinedNames(src[i]) :
           /\ src[i].scope = src[j].scope
           /\ src[i].path < src[j].path
           /\ DefinedNames(src[j]) # {}
           /\ name \notin DefinedNames(src[j])
           /\ src[i].scope \in SelectorsOf(metadata)
           /\ name \in DOMAIN Fragment(metadata, src[i].scope).items.shell_variables

----------------------------------------------------------------------------
(* C3 *)

\* C3: in the fragment merged for a scope, each recognized key other than
\* shellVariables holds the whole value given by the definer of greatest path,
\* and is absent only when no entry of the scope defines it.
C3_ScalarKeysLastWriter ==
    (op = "from" /\ ~panicked) =>
        \A sel \in SelectorsOf(metadata) : \A key \in ScalarKeys :
            LET field == FieldOfKey(Fragment(metadata, sel).items, key)
                D == KeyDefiners(src, sel, key)
            IN  /\ IsSome(field) <=> D # {}
                /\ D # {} =>
                       \E i \in Greatest(src, D) :
                           field = Some(TypedValue(key, src[i].settings[key]))

----------------------------------------------------------------------------
(* C8 *)

\* C8: no two entries of the Metadata have the same selector text.
C8_SelectorsUnique ==
    \A i, j \in 1..Len(metadata) :
        metadata[i].selector_string = metadata[j].selector_string => i = j

\* An overlay brought a selector the existing Metadata already had.
C8_Witness ==
    /\ op = "merged_with_raw" /\ ~panicked
    /\ \E i \in 1..Len(src) : src[i].scope \in SelectorsOf(prev)
    /\ Len(metadata) >= 1

----------------------------------------------------------------------------
(* C9 *)

\* C9: merged_with_raw returns the union by selector text of the existing
\* Metadata and the Metadata merged from raw: the new entry, whole, for every
\* selector the new merge produced, and the existing entry, unchanged, for
\* every other selector.
C9_OverlayIsUnion ==
    (op = "merged_with_raw" /\ ~panicked) =>
        \E r \in from(src) :
            /\ ~r.panicked
            /\ SelectorsOf(metadata) = SelectorsOf(prev) \cup SelectorsOf(r.scoped_metadata)
            /\ Len(metadata) = Cardinality(SelectorsOf(metadata))
            /\ \A sel \in SelectorsOf(metadata) :
                   Fragment(metadata, sel) =
                       IF sel \in SelectorsOf(r.scoped_metadata)
                       THEN Fragment(r.scoped_metadata, sel)
                       ELSE Fragment(prev, sel)

\* The overlay replaced an entry that had a field the new entry lacks, and
\* that field is gone.
C9_Witness ==
    /\ op = "merged_with_raw" /\ ~panicked
    /\ \E sel \in SelectorsOf(prev) \cap SelectorsOf(metadata) :
           /\ \E i \in 1..Len(src) : src[i].scope = sel
           /\ IsSome(Fragment(prev, sel).items.increase_indent_pattern)
           /\ ~IsSome(Fragment(metadata, sel).items.increase_indent_pattern)

----------------------------------------------------------------------------
(* Vocabulary of the claims about the derived comment markers *)

StartKey(i) ==
    CASE i = 1 -> "TM_COMMENT_START" [] i = 2 -> "TM_COMMENT_START_2"
      [] i = 3 -> "TM_COMMENT_START_3"

EndKey(i) ==
    CASE i = 1 -> "TM_COMMENT_END" [] i = 2 -> "TM_COMMENT_END_2"
      [] i = 3 -> "TM_COMMENT_END_3"

Slots == {1, 2, 3}
Least(S) == CHOOSE i \in S : \A j \in S : i <= j

\* The variable map of the tuple handed to from_raw (empty without one).
TupleVars ==
    IF "shellVariables" \in DOMAIN tuple[2] /\ Kind(tuple[2]["shellVariables"]) = "object"
    THEN Payload(tuple[2]["shellVariables"])
    ELSE EmptyDict

LineSlots(vm)  == {i \in Slots : StartKey(i) \in DOMAIN vm /\ EndKey(i) \notin DOMAIN vm}
BlockSlots(vm) == {i \in Slots : StartKey(i) \in DOMAIN vm /\ EndKey(i) \in DOMAIN vm}

----------------------------------------------------------------------------
(* C6 *)

\* C6: the line comment of the MetadataSet from_raw builds is the start value
\* of the lowest slot whose start key is present and whose end key is absent,
\* and is absent when there is no such slot.
C6_LineCommentFirstOpenSlot ==
    (built.tag = "Ok") =>
        built.set.items.line_comment =
            IF LineSlots(TupleVars) = {} THEN None
            ELSE Some(Payload(TupleVars[StartKey(Least(LineSlots(TupleVars)))]))

\* Slots 2 and 3 both qualify, slot 1 does not, and the marker is slot 2's.
C6_Witness ==
    /\ built.tag = "Ok"
    /\ LineSlots(TupleVars) = {2, 3}
    /\ TupleVars[StartKey(2)] # TupleVars[StartKey(3)]
    /\ built.set.items.line_comment = Some(Payload(TupleVars[StartKey(2)]))

----------------------------------------------------------------------------
(* C7 *)

\* C7: the block comment of the MetadataSet from_raw builds is the (start, end)
\* values of the lowest slot with both keys present, whatever the line comment
\* is; with slot 1 open and slot 2 closed the line comment is slot 1's start
\* and the block comment slot 2's pair.
C7_BlockCommentFirstClosedSlot ==
    (built.tag = "Ok") =>
        /\ built.set.items.block_comment =
               IF BlockSlots(TupleVars) = {} THEN None
               ELSE LET i == Least(BlockSlots(TupleVars))
                    IN  Some(<<Payload(TupleVars[StartKey(i)]), Payload(TupleVars[EndKey(i)])>>)
        /\ (1 \in LineSlots(TupleVars) /\ 2 \in BlockSlots(TupleVars)) =>
               /\ built.set.items.line_comment = Some(Payload(TupleVars[StartKey(1)]))
               /\ built.set.items.block_comment =
                      Some(<<Payload(TupleVars[StartKey(2)]), Payload(TupleVars[EndKey(2)])>>)

\* Slot 1 has only a start key, slot 2 has both keys, and both markers exist.
C7_Witness ==
    /\ built.tag = "Ok"
    /\ 1 \in LineSlots(TupleVars)
    /\ 2 \in BlockSlots(TupleVars)
    /\ IsSome(built.set.items.line_comment)
    /\ IsSome(built.set.items.block_comment)
    /\ TupleVars[StartKey(1)] # TupleVars[StartKey(2)]

----------------------------------------------------------------------------
(* Vocabulary of the claims about the accessors *)

PatternAccessors ==
    { <<"unindented_line", "unindented_line_pattern">>,
      <<"decrease_indent", "decrease_indent_pattern">>,
      <<"increase_indent", "increase_indent_pattern">>,
      <<"bracket_increase", "bracket_indent_next_line_pattern">>,
      <<"disable_indent_next_line", "disable_indent_next_line_pattern">> }

CommentAccessors ==
    { <<"line_comment", "line_comment">>, <<"block_comment", "block_comment">> }

\* The ranked items whose fragment defines the field.
Defining(field) == {i \in 1..Len(scoped) : IsSome(metadata[scoped[i].meta_set].items[field])}

FirstDefining(field) == metadata[scoped[Least(Defining(field))].meta_set].items[field]

Returned == ~panicked /\ call[1] # "none"

----------------------------------------------------------------------------
(* C4 *)

\* C4: an accessor answers from the first ranked entry that defines its own
\* field, whatever else that entry or the entries before it define: a pattern
\* accessor returns whether that entry's pattern matches the line, a comment
\* accessor returns that entry's marker.
C4_FieldLevelCascade ==
    Returned =>
        /\ \A a \in PatternAccessors :
               (call[1] = a[1] /\ Defining(a[2]) # {}) =>
                   ret = Some(match_with_options(Unwrap(FirstDefining(a[2])).regex_str,
                                                 call[2]))
        /\ \A a \in CommentAccessors :
               (call[1] = a[1] /\ Defining(a[2]) # {}) => ret = Some(FirstDefining(a[2]))

\* The higher-ranked entry defines increase-indent and not decrease-indent,
\* the lower-ranked one decrease-indent and not increase-indent, and
\* decrease_indent has answered true from the lower-ranked pattern.
C4_Witness ==
    /\ Returned
    /\ call[1] = "decrease_indent"
    /\ Len(scoped) = 2
    /\ scoped[1].power > scoped[2].power
    /\ Defining("increase_indent_pattern") = {1}
    /\ Defining("decrease_indent_pattern") = {2}
    /\ ret = Some(TRUE)

----------------------------------------------------------------------------
(* C5 *)

\* C5: when no ranked entry defines the field, a pattern accessor returns
\* false and a comment accessor returns None.
C5_NothingDefined ==
    Returned =>
        /\ \A a \in PatternAccessors :
               (call[1] = a[1] /\ Defining(a[2]) = {}) => ret = Some(FALSE)
        /\ \A a \in CommentAccessors :
               (call[1] = a[1] /\ Defining(a[2]) = {}) => ret = Some(None)

\* The Metadata has entries, none matches the scope stack, and a pattern
\* accessor has answered.
C5_Witness ==
    /\ Returned
    /\ call[1] = "increase_indent"
    /\ Len(metadata) >= 1
    /\ Len(scoped) = 0
    /\ ret = Some(FALSE)

----------------------------------------------------------------------------
(* C10 *)

\* C10: on a Pattern whose source compiles, no call of is_match from any
\* thread fails, under any interleaving; in particular a thread that has
\* compiled never finds the cell empty when it borrows again.
C10_RacingCallsNeverFail ==
    RegexCompiles(pattern.regex_str) => \A t \in Threads : pc[t] # "panicked"

----------------------------------------------------------------------------
(* C11 *)

\* The entries of acc for scope sel, in the order of acc.
OfScope(acc, sel) == SelectSeq(acc, LAMBDA e : e.scope = sel)

ScopesOf(acc) == {acc[i].scope : i \in 1..Len(acc)}

\* C11: a conversion always returns a Metadata; the Metadata has, for each
\* scope of the accumulator, the fragment that the scope's entries alone give,
\* and no entry for a scope whose entries alone give none.
C11_FailuresStayLocal ==
    (op = "from") =>
        /\ ~panicked
        /\ \A sel \in ScopesOf(src) :
               \E r \in from(OfScope(src, sel)) :
                   /\ ~r.panicked
                   /\ r.scoped_metadata =
                          SelectSeq(metadata, LAMBDA ms : ms.selector_string = sel)

----------------------------------------------------------------------------
(* C12 *)

\* C12: whether two Patterns are equal and what a Pattern serializes to are
\* decided by the source strings alone; the Pattern deserialized from the
\* serialized form of a Pattern has the same source and is equal to it,
\* compiled or not.
C12_PatternBySourceOnly ==
    ~panicked =>
        /\ \A regex_str \in PatternStrInputs :
               eq(orig, NewPattern(regex_str)) <=> (orig.regex_str = regex_str)
        /\ Pattern_serialize(orig) = Pattern_serialize(NewPattern(orig.regex_str))
        /\ (op = "deserialize") =>
               /\ Unwrap(copy).regex_str = orig.regex_str
               /\ eq(orig, Unwrap(copy))
               /\ eq(Unwrap(copy), orig)

\* A compiled Pattern was serialized and deserialized.
C12_Witness ==
    /\ op = "deserialize" /\ ~panicked
    /\ IsSome(orig.regex)
    /\ wire = Some(Pattern_serialize(orig))
    /\ ~IsSome(Unwrap(copy).regex)

----------------------------------------------------------------------------
(* C13 *)

\* The recognized fields of two fragments agree.
SameRecognized(a, b) ==
    /\ a.selector_string = b.selector_string
    /\ \A i \in 1..Len(PatternFields) :
           LET fa == a.items[PatternFields[i][1]]
               fb == b.items[PatternFields[i][1]]
           IN  /\ IsSome(fa) <=> IsSome(fb)
               /\ IsSome(fa) => eq(Unwrap(fa), Unwrap(fb))
    /\ a.items.indent_parens = b.items.indent_parens
    /\ a.items.shell_variables = b.items.shell_variables

\* back is the result of deserializing the serialized form of set.
RoundTripped ==
    /\ op = "set_deserialize" /\ ~panicked
    /\ IsSome(set)
    /\ wire = Some(MetadataSet_serialize(Unwrap(set)))

\* C13: the round trip reproduces the selector text and the
\* recognized fields, and the comment fields of the result are the markers
\* derived from the result's variables.
C13_RoundTripRecomputesComments ==
    RoundTripped =>
        /\ back.tag = "Ok"
        /\ SameRecognized(back.set, Unwrap(set))
        /\ back.set.items.line_comment =
               DerivedLineComment(back.set.items.shell_variables)
        /\ back.set.items.block_comment =
               DerivedBlockComment(back.set.items.shell_variables)

----------------------------------------------------------------------------
(* C18 *)

\* C18: a Pattern is uncompiled when created, when deserialized and when
\* cloned; an is_match that returns leaves it compiled; a compiled Pattern
\* keeps the compiled regex it has.
C18_CacheOneWay ==
    /\ ~IsSome(orig.regex)
    /\ []((op \in {"clone", "deserialize"}) => ~IsSome(Unwrap(copy).regex))
    /\ []((op = "is_match" /\ ~panicked) => IsSome(orig.regex))
    /\ []((op = "is_match_copy" /\ ~panicked) => IsSome(Unwrap(copy).regex))
    /\ [][IsSome(orig.regex) => orig'.regex = orig.regex]_vars

\* A compiled Pattern was cloned.
C18_Witness ==
    /\ op = "clone" /\ ~panicked
    /\ IsSome(orig.regex)
    /\ ~IsSome(Unwrap(copy).regex)

----------------------------------------------------------------------------
(* C14 *)

\* The entries of the Metadata whose selector has a score against the stack.
Matching == {i \in 1..Len(metadata) : IsSome(scores[metadata[i].selector])}

\* C14: the ScopedMetadata holds each matching entry once, with its score,
\* holds no other entry, and is in non-increasing order of score.
C14_MatchingEntriesByScore ==
    (op = "metadata_for_scope") =>
        /\ {scoped[k].meta_set : k \in 1..Len(scoped)} = Matching
        /\ Len(scoped) = Cardinality(Matching)
        /\ \A k \in 1..Len(scoped) :
               scoped[k].power = Unwrap(scores[metadata[scoped[k].meta_set].selector])
        /\ \A k \in 1..(Len(scoped) - 1) : scoped[k].power >= scoped[k + 1].power

\* Of two matching entries the second has the higher score and comes out first.
C14_Witness ==
    /\ op = "metadata_for_scope"
    /\ Len(metadata) = 2
    /\ Matching = {1, 2}
    /\ Unwrap(scores[metadata[1].selector]) < Unwrap(scores[metadata[2].selector])
    /\ scoped[1].meta_set = 2

----------------------------------------------------------------------------
(* C15 *)

\* C15: items of equal score are in the order their entries have in the
\* Metadata.
C15_TiesKeepCollectionOrder ==
    (op = "metadata_for_scope") =>
        \A i, j \in 1..Len(scoped) :
            (i < j /\ scoped[i].power = scoped[j].power) =>
                scoped[i].meta_set < scoped[j].meta_set

----------------------------------------------------------------------------
(* C16 *)

\* What the accessor just called returns on the Metadata md ranked as items_:
\* a pattern accessor that panics returns nothing.
AccessorValue(md, items_) ==
    IF \E a \in PatternAccessors : a[1] = call[1]
    THEN LET a == CHOOSE a \in PatternAccessors : a[1] = call[1]
             r == pattern_accessor(md, items_, a[2], call[2])
         IN  IF r.panicked THEN None ELSE Some(r.value)
    ELSE LET a == CHOOSE a \in CommentAccessors : a[1] = call[1]
         IN  Some(comment_accessor(md, items_, a[2]))

\* The accessor returns the same on every Metadata holding the same entries.
SameInEveryOrder ==
    \A md \in Reorderings(metadata) :
        \A items_ \in metadata_for_scope(md, scores) :
            AccessorValue(md, items_) = ret

DistinctMatchingScores ==
    \A i, j \in Matching :
        i # j => scores[metadata[i].selector] # scores[metadata[j].selector]

\* C16 (as stated): the value an accessor returns does not depend on the order
\* of the entries in the Metadata.
C16_OrderIrrelevant == Returned => SameInEveryOrder

\* C16 (amended): when the entries matching the scope stack have pairwise
\* different scores, the value an accessor returns does not depend on the
\* order of the entries in the Metadata.
C16_OrderIrrelevantDistinctScores ==
    (Returned /\ DistinctMatchingScores) => SameInEveryOrder

\* Two entries of different scores both define the field asked for, with
\* different values, and the one of lower score is first in the Metadata.
C16_Witness ==
    /\ Returned
    /\ call[1] = "increase_indent"
    /\ Matching = {1, 2}
    /\ Unwrap(scores[metadata[1].selector]) < Unwrap(scores[metadata[2].selector])
    /\ Defining("increase_indent_pattern") = {1, 2}
    /\ Unwrap(metadata[1].items.increase_indent_pattern).regex_str #
           Unwrap(metadata[2].items.increase_indent_pattern).regex_str
    /\ ret = Some(match_with_options(
               Unwrap(metadata[2].items.increase_indent_pattern).regex_str, call[2]))

----------------------------------------------------------------------------
(* C17 *)

\* The entry has a shellVariables value that is no list of name/value pairs.
Malformed(e) ==
    "shellVariables" \in DOMAIN e.settings /\ ~IsShellVars(e.settings["shellVariables"])

\* C17: a conversion of entries of which some have malformed shellVariables
\* returns; every scope has its fragment; a variable is in the fragment
\* exactly when a well-formed entry of the scope defines it, with the value of
\* the well-formed definer of greatest path; and the other keys of an entry,
\* malformed or not, are merged as for any entry.
C17_MalformedVariablesDropped ==
    (op = "from") =>
        /\ ~panicked
        /\ \A sel \in ScopesOf(src) :
               /\ sel \in SelectorsOf(metadata)
               /\ \A name \in CommentNames :
                      LET shell_variables == Fragment(metadata, sel).items.shell_variables
                          D == {i \in NameDefiners(src, sel, name) : ~Malformed(src[i])}
                      IN  /\ name \in DOMAIN shell_variables <=> D # {}
                          /\ D # {} =>
                                 \E i \in Greatest(src, D) :
                                     shell_variables[name] =
                                         Payload(GivenValue(src[i], name))
               /\ LET field == Fragment(metadata, sel).items.increase_indent_pattern
                      D == KeyDefiners(src, sel, "increaseIndentPattern")
                  IN  /\ IsSome(field) <=> D # {}
                      /\ D # {} =>
                             \E i \in Greatest(src, D) :
                                 field = Some(NewPattern(
                                     Payload(src[i].settings["increaseIndentPattern"])))

\* A well-formed entry defines a variable, an entry of the same scope and of
\* greater path has a malformed list and a pattern, and the fragment has both
\* the variable and the pattern.
C17_Witness ==
    /\ op = "from" /\ ~panicked
    /\ \E i, j \in 1..Len(src) :
           /\ src[i].scope = src[j].scope
           /\ src[i].path < src[j].path
           /\ ~Malformed(src[i])
           /\ "TM_COMMENT_START" \in DefinedNames(src[i])
           /\ Malformed(src[j])
           /\ "increaseIndentPattern" \in DOMAIN src[j].settings
           /\ LET items == Fragment(metadata, src[i].scope).items
              IN  /\ "TM_COMMENT_START" \in DOMAIN items.shell_variables
                  /\ IsSome(items.increase_indent_pattern)

----------------------------------------------------------------------------
(* C19 *)

\* The markers the derivation rule gives for a variable table.
ExpectedLineComment(vm) ==
    IF LineSlots(vm) = {} THEN None ELSE Some(vm[StartKey(Least(LineSlots(vm)))])

ExpectedBlockComment(vm) ==
    IF BlockSlots(vm) = {} THEN None
    ELSE LET i == Least(BlockSlots(vm)) IN Some(<<vm[StartKey(i)], vm[EndKey(i)]>>)

\* One file of the scope gives TM_COMMENT_START only, a file of greater path of
\* the same scope gives TM_COMMENT_END only, and the scope has no other file.
SplitPair(sel) ==
    /\ Len(OfScope(src, sel)) = 2
    /\ \E i, j \in 1..Len(src) :
           /\ src[i].scope = sel /\ src[j].scope = sel
           /\ src[i].path < src[j].path
           /\ DefinedNames(src[i]) = {"TM_COMMENT_START"}
           /\ DefinedNames(src[j]) = {"TM_COMMENT_END"}

\* C19: in every entry of a merged Metadata the line comment and the block
\* comment are what the derivation rule gives for the entry's own merged
\* shell_variables; a start marker and an end marker that come from two files
\* of one scope make a block comment and no line comment.
C19_CommentsFromMergedVariables ==
    ~panicked =>
        /\ \A k \in 1..Len(metadata) :
               /\ metadata[k].items.line_comment =
                      ExpectedLineComment(metadata[k].items.shell_variables)
               /\ metadata[k].items.block_comment =
                      ExpectedBlockComment(metadata[k].items.shell_variables)
        /\ (op = "from") =>
               \A sel \in ScopesOf(src) :
                   SplitPair(sel) =>
                       /\ IsSome(Fragment(metadata, sel).items.block_comment)
                       /\ ~IsSome(Fragment(metadata, sel).items.line_comment)

\* The start marker and the end marker of slot 1 came from two files.
C19_Witness ==
    /\ op = "from" /\ ~panicked
    /\ \E sel \in ScopesOf(src) :
           /\ SplitPair(sel)
           /\ Fragment(metadata, sel).items.block_comment = Some(<<"/*", "*/">>)
           /\ Fragment(metadata, sel).items.line_comment = None

----------------------------------------------------------------------------
(* C20 *)

\* C20: the entries of a Metadata returned by a conversion or by
\* merged_with_raw are in strictly ascending order of selector text.
C20_AscendingSelectors ==
    Converted =>
        \A k \in 1..(Len(metadata) - 1) :
            metadata[k].selector_string < metadata[k + 1].selector_string

\* The existing Metadata was in descending order, the files added in
\* descending order of selector too, and the result has them all.
C20_Witness ==
    /\ op = "merged_with_raw" /\ ~panicked
    /\ Len(prev) = 2
    /\ prev[1].selector_string > prev[2].selector_string
    /\ Len(src) = 2
    /\ src[1].scope > src[2].scope
    /\ Len(metadata) >= 3

====
